---- MODULE Spec2Model ----
(***************************************************************************)
(* MIND X MUSCLE backend: the session attendance transition                *)
(* (update_attendance), the create endpoints that feed it, and the         *)
(* relative-strength progress query.                                       *)
(*                                                                         *)
(* A stored document is a function from field names to values; an optional *)
(* field that was not supplied is not in the document's DOMAIN.            *)
(* Identifiers are integers: _id k is the k-th document inserted into its  *)
(* collection, BadId stands for a string that is no ObjectId, and an       *)
(* integer above the collection's length is a well-formed ObjectId that    *)
(* matches no document.                                                    *)
(***************************************************************************)
EXTENDS Integers, Sequences, FiniteSets, TLC

\* ------------------------------------------------------------------ bounds
MaxClients == 2
MaxSessions == 2
MaxMeasurements == 2
\* largest sessions_remaining a submitted Client carries
MaxRemaining == 1
\* attendance calls stop being issued once a counter has fallen this far below 0
MaxDebt == 2
\* largest one_rm_kg / bodyweight_kg a submitted Measurement carries
MaxKg == 1
\* concurrent update_attendance requests in flight
NumProcs == 2

BadId == 0

VARIABLES
    db,           \* TRUE iff the store handle `db` is not None
    client,       \* collection "client", in insertion order
    session,      \* collection "session", in insertion order
    measurement,  \* collection "measurement", in insertion order
    response,     \* the HTTP response of the last request handled
    client0,      \* history: the client collection before the in-flight requests began
    pc,           \* per in-flight request: position inside update_attendance
    req,          \* per in-flight request: its session_id and payload.status
    sess          \* per in-flight request: the document find_one returned

vars == <<db, client, session, measurement, response, client0, pc, req, sess>>

store == <<client, session, measurement>>
inflight == <<pc, req, sess>>

Procs == 1..NumProcs

\* ------------------------------------------------------------- schemas.py
SessionStatus == {"scheduled", "completed", "missed", "cancelled"}

\* AttendanceUpdate.status is a plain str: any string validates
AttendanceStatus == SessionStatus \cup {"no_show"}

ClientIdStr == BadId..MaxClients

\* Optional[int] = Field(None, ge=0)
ValidClient(c) ==
    "sessions_remaining" \in DOMAIN c => c.sessions_remaining >= 0

\* candidate bodies of POST /clients, valid or not
ClientInputs ==
    {[is_active |-> TRUE]}
    \cup {[is_active |-> TRUE, sessions_remaining |-> n] : n \in -1..MaxRemaining}

\* candidate bodies of POST /sessions (status defaults to "scheduled")
SessionInputs ==
    {[client_id |-> c, status |-> s] : c \in ClientIdStr, s \in SessionStatus}

\* one_rm_kg and bodyweight_kg: Optional[float] = Field(None, ge=0)
ValidMeasurement(m) ==
    /\ "one_rm_kg" \in DOMAIN m => m.one_rm_kg >= 0
    /\ "bodyweight_kg" \in DOMAIN m => m.bodyweight_kg >= 0

Kg == -1..MaxKg

MeasurementInputs ==
    {[client_id |-> c] : c \in ClientIdStr}
    \cup {[client_id |-> c, one_rm_kg |-> a] : c \in ClientIdStr, a \in Kg}
    \cup {[client_id |-> c, bodyweight_kg |-> b] : c \in ClientIdStr, b \in Kg}
    \cup {[client_id |-> c, one_rm_kg |-> a, bodyweight_kg |-> b] :
            c \in ClientIdStr, a \in Kg, b \in Kg}

\* ------------------------------------------------------------ the store
\* datetime.utcnow(): the program stores the instant and never reads it
\* back, so one value stands for every instant
utcnow == "utcnow"

\* create_document and get_documents are the store adapter (module
\* database), modelled by its contract: insert assigns a fresh identifier and
\* appends; query returns the matching documents in insertion order, with
\* equality and greater-than conditions; optional fields not supplied are
\* stored as absent.

\* insert: the document gets the next _id and the last position
create_document(coll, data) ==
    Append(coll, data @@ [_id |-> Len(coll) + 1])

\* one condition of a query filter against one document
Cond(doc, c) ==
    /\ c.field \in DOMAIN doc
    /\ IF c.op = "gt" THEN doc[c.field] > c.value ELSE doc[c.field] = c.value

Matches(doc, filter) ==
    \A k \in 1..Len(filter) : Cond(doc, filter[k])

\* query: the matching documents, in insertion order
get_documents(coll, filter) ==
    SelectSeq(coll, LAMBDA d : Matches(d, filter))

\* find_one({"_id": ObjectId(id)}): the document, or <<>> for None
find_one(coll, id) ==
    IF id \in 1..Len(coll) THEN coll[id] ELSE <<>>

\* {"$set": {"status": status, "updated_at": utcnow}} on the session with this _id
SetStatus(coll, id, status) ==
    IF id \in 1..Len(coll)
    THEN [coll EXCEPT ![id] =
            [status |-> status, updated_at |-> utcnow] @@ coll[id]]
    ELSE coll

\* a missing sessions_remaining counts as 0 for $inc
Remaining(doc) ==
    IF "sessions_remaining" \in DOMAIN doc THEN doc.sessions_remaining ELSE 0

\* mutant: the increment has the wrong sign
IncRemainingUp(coll, id) ==
    IF id \in 1..Len(coll)
    THEN [coll EXCEPT ![id] =
            [sessions_remaining |-> Remaining(coll[id]) + 1,
             updated_at |-> utcnow] @@ coll[id]]
    ELSE coll

\* mutant: read-modify-write from a value read before the requests began,
\* in place of the store's atomic $inc
IncRemainingStale(coll, id) ==
    IF id \in 1..Len(coll)
    THEN [coll EXCEPT ![id] =
            [sessions_remaining |-> Remaining(client0[id]) - 1,
             updated_at |-> utcnow] @@ coll[id]]
    ELSE coll

\* {"$inc": {"sessions_remaining": -1}, "$set": {"updated_at": utcnow}} on the
\* client with this _id; $inc creates a missing field from 0
IncRemaining(coll, id) ==
    IF id \in 1..Len(coll)
    THEN [coll EXCEPT ![id] =
            [sessions_remaining |-> Remaining(coll[id]) - 1,
             updated_at |-> utcnow] @@ coll[id]]
    ELSE coll

\* ------------------------------------------------------------ responses
\* op: the endpoint; id: its path parameter; status: payload.status; code: the
\* HTTP status; error: what was raised inside the handler; body: a list result
Resp(op, id, status, code, error) ==
    [op |-> op, id |-> id, status |-> status, code |-> code,
     error |-> error, body |-> <<>>]

Init ==
    /\ db \in BOOLEAN
    /\ client = <<>>
    /\ session = <<>>
    /\ measurement = <<>>
    /\ response = Resp("none", BadId, "", 0, "")
    /\ client0 = <<>>
    /\ pc = [p \in Procs |-> "idle"]
    /\ req = [p \in Procs |-> [session_id |-> BadId, status |-> ""]]
    /\ sess = [p \in Procs |-> <<>>]

\* ------------------------------------------------- main.py: create endpoints
\* a create endpoint that persisted nothing
Rejected(op, code, error) ==
    /\ response' = Resp(op, BadId, "", code, error)
    /\ UNCHANGED <<store, client0, db, inflight>>

\* POST /clients
create_client(c, fault) ==
    /\ Len(client) < MaxClients
    /\ IF ~ValidClient(c) THEN Rejected("create_client", 422, "validation")
       ELSE IF ~db THEN Rejected("create_client", 500, "db_none")
       ELSE IF fault THEN Rejected("create_client", 500, "store")
       ELSE /\ client' = create_document(client, c)
            /\ response' = Resp("create_client", BadId, "", 200, "")
            /\ UNCHANGED <<session, measurement, client0, db, inflight>>

\* POST /sessions
book_session(s, fault) ==
    /\ Len(session) < MaxSessions
    /\ IF ~db THEN Rejected("book_session", 500, "db_none")
       ELSE IF fault THEN Rejected("book_session", 500, "store")
       ELSE /\ session' = create_document(session, s)
            /\ response' = Resp("book_session", BadId, "", 200, "")
            /\ UNCHANGED <<client, client0, measurement, db, inflight>>

\* POST /measurements
add_measurement(m, fault) ==
    /\ Len(measurement) < MaxMeasurements
    /\ IF ~ValidMeasurement(m) THEN Rejected("add_measurement", 422, "validation")
       ELSE IF ~db THEN Rejected("add_measurement", 500, "db_none")
       ELSE IF fault THEN Rejected("add_measurement", 500, "store")
       ELSE /\ measurement' = create_document(measurement, m)
            /\ response' = Resp("add_measurement", BadId, "", 200, "")
            /\ UNCHANGED <<client, client0, session, db, inflight>>

\* ------------------------------------------- main.py: update_attendance
Faults == {"none", "find_one", "update_session", "update_client"}

\* mutant: an idempotency guard on sessions already completed
ShouldDecrementOnce(found, status) ==
    status = "completed" /\ found.status # "completed"

\* mutant: the client update is not guarded by the status
ShouldDecrementAlways(found, status) == TRUE

\* `if payload.status == "completed":` guards the client update
ShouldDecrement(found, status) == status = "completed"

\* mutant: the except clause swallows the exception
ExceptCodeSwallowed(raised) == 200

\* `except Exception as e: raise HTTPException(status_code=400, ...)`: every
\* exception raised inside the try block, the handler's own
\* HTTPException(404) included, leaves as a 400
ExceptCode(raised) == 400

\* calls stop once the counter of the session's client has fallen MaxDebt below 0
WithinDebt(session_id) ==
    LET found == find_one(session, session_id)
    IN  (/\ found # <<>>
         /\ found.client_id \in 1..Len(client)
         /\ "sessions_remaining" \in DOMAIN client[found.client_id])
        => client[found.client_id].sessions_remaining > -MaxDebt

\* POST /sessions/{session_id}/attendance, handled without interruption.
\* fault names the store call, if any, that finds the store unreachable.
update_attendance(session_id, status, fault) ==
    LET found == find_one(session, session_id)
        Reply(code, error) ==
            response' = Resp("update_attendance", session_id, status, code, error)
    IN
    /\ WithinDebt(session_id)
    /\ UNCHANGED <<measurement, client0, db, inflight>>
    /\ IF ~db
       THEN Reply(500, "db_none") /\ UNCHANGED <<client, session>>
       ELSE IF session_id = BadId
       THEN Reply(ExceptCode("InvalidId"), "invalid_id") /\ UNCHANGED <<client, session>>
       ELSE IF fault = "find_one"
       THEN Reply(ExceptCode("PyMongoError"), "store") /\ UNCHANGED <<client, session>>
       ELSE IF found = <<>>
       THEN Reply(ExceptCode("HTTPException(404)"), "not_found") /\ UNCHANGED <<client, session>>
       ELSE IF fault = "update_session"
       THEN Reply(ExceptCode("PyMongoError"), "store") /\ UNCHANGED <<client, session>>
       ELSE
         /\ session' = SetStatus(session, session_id, status)
         /\ IF ~ShouldDecrement(found, status)
            THEN Reply(200, "") /\ UNCHANGED client
            ELSE IF found.client_id = BadId
            THEN Reply(ExceptCode("InvalidId"), "invalid_client_id") /\ UNCHANGED client
            ELSE IF fault = "update_client"
            THEN Reply(ExceptCode("PyMongoError"), "store_client") /\ UNCHANGED client
            ELSE /\ client' = IncRemaining(client, found.client_id)
                 /\ Reply(200, "")

Next ==
    \/ \E c \in ClientInputs, f \in BOOLEAN : create_client(c, f)
    \/ \E s \in SessionInputs, f \in BOOLEAN : book_session(s, f)
    \/ \E sid \in BadId..MaxSessions, st \in AttendanceStatus, f \in Faults :
          update_attendance(sid, st, f)

Spec == Init /\ [][Next]_vars

\* ------------------------------- main.py: progress_relative_strength
\* mutant: the bodyweight condition is missing
RelativeStrengthFilterOneRmOnly(client_id) ==
    << [field |-> "client_id", op |-> "eq", value |-> client_id],
       [field |-> "one_rm_kg", op |-> "gt", value |-> 0] >>

\* {"client_id": client_id, "one_rm_kg": {"$gt": 0}, "bodyweight_kg": {"$gt": 0}}
RelativeStrengthFilter(client_id) ==
    << [field |-> "client_id", op |-> "eq", value |-> client_id],
       [field |-> "one_rm_kg", op |-> "gt", value |-> 0],
       [field |-> "bodyweight_kg", op |-> "gt", value |-> 0] >>

\* GET /clients/{client_id}/progress/relative-strength
progress_relative_strength(client_id, fault) ==
    /\ UNCHANGED <<store, client0, db, inflight>>
    /\ IF ~db
       THEN response' = Resp("progress_relative_strength", client_id, "", 500, "db_none")
       ELSE IF fault
       THEN response' = Resp("progress_relative_strength", client_id, "", 500, "store")
       ELSE response' =
              [Resp("progress_relative_strength", client_id, "", 200, "")
                 EXCEPT !.body = get_documents(measurement, RelativeStrengthFilter(client_id))]

ProgressNext ==
    \/ \E m \in MeasurementInputs, f \in BOOLEAN : add_measurement(m, f)
    \/ \E c \in ClientIdStr, f \in BOOLEAN : progress_relative_strength(c, f)

ProgressSpec == Init /\ [][ProgressNext]_vars

\* ------------------- update_attendance, one store call at a time
\* Requests are handled independently, so the store calls of several
\* update_attendance requests interleave; each store call is atomic on
\* its one document.

\* stores that create_client and book_session leave behind
Inserted(inputs, n) ==
    UNION {{[i \in 1..k |-> f[i] @@ [_id |-> i]] : f \in [1..k -> inputs]} : k \in 0..n}

ConcClients == Inserted({c \in ClientInputs : ValidClient(c)}, MaxClients)

ConcSessions ==
    Inserted({s \in SessionInputs : s.status = "scheduled"}, MaxSessions)

ConcStatus == {"completed", "missed"}

ConcInit ==
    /\ db \in BOOLEAN
    /\ client \in ConcClients
    /\ session \in ConcSessions
    /\ measurement = <<>>
    /\ response = Resp("none", BadId, "", 0, "")
    /\ client0 = client
    /\ pc = [p \in Procs |-> "idle"]
    /\ req = [p \in Procs |-> [session_id |-> BadId, status |-> ""]]
    /\ sess = [p \in Procs |-> <<>>]

\* the request ends: 200 goes to "ok", any HTTPException to "error"
Finish(p, code) ==
    pc' = [pc EXCEPT ![p] = IF code = 200 THEN "ok" ELSE "error"]

\* lines 83-89: the db check and find_one
attendance_find(p, session_id, status, fault) ==
    LET found == find_one(session, session_id)
    IN
    /\ pc[p] = "idle"
    /\ req' = [req EXCEPT ![p] = [session_id |-> session_id, status |-> status]]
    /\ UNCHANGED <<store, client0, db, response>>
    /\ IF ~db
       THEN Finish(p, 500) /\ UNCHANGED sess
       ELSE IF session_id = BadId
       THEN Finish(p, ExceptCode("InvalidId")) /\ UNCHANGED sess
       ELSE IF fault
       THEN Finish(p, ExceptCode("PyMongoError")) /\ UNCHANGED sess
       ELSE IF found = <<>>
       THEN Finish(p, ExceptCode("HTTPException(404)")) /\ UNCHANGED sess
       ELSE /\ sess' = [sess EXCEPT ![p] = found]
            /\ pc' = [pc EXCEPT ![p] = "update_session"]

\* line 91: update_one on the session
attendance_update_session(p, fault) ==
    /\ pc[p] = "update_session"
    /\ UNCHANGED <<client, measurement, client0, db, response, req, sess>>
    /\ IF fault
       THEN Finish(p, ExceptCode("PyMongoError")) /\ UNCHANGED session
       ELSE /\ session' = SetStatus(session, req[p].session_id, req[p].status)
            /\ IF ShouldDecrement(sess[p], req[p].status)
               THEN pc' = [pc EXCEPT ![p] = "update_client"]
               ELSE Finish(p, 200)

\* line 94: update_one on the client named by the session read at line 87
attendance_update_client(p, fault) ==
    /\ pc[p] = "update_client"
    /\ UNCHANGED <<session, measurement, client0, db, response, req, sess>>
    /\ IF sess[p].client_id = BadId
       THEN Finish(p, ExceptCode("InvalidId")) /\ UNCHANGED client
       ELSE IF fault
       THEN Finish(p, ExceptCode("PyMongoError")) /\ UNCHANGED client
       ELSE /\ client' = IncRemaining(client, sess[p].client_id)
            /\ Finish(p, 200)

ConcNext ==
    \/ \E p \in Procs, sid \in BadId..MaxSessions, st \in ConcStatus, f \in BOOLEAN :
          attendance_find(p, sid, st, f)
    \/ \E p \in Procs, f \in BOOLEAN : attendance_update_session(p, f)
    \/ \E p \in Procs, f \in BOOLEAN : attendance_update_client(p, f)

ConcSpec == ConcInit /\ [][ConcNext]_vars

\* ======================================================== properties
\* the step just taken handled an update_attendance request
AttendanceStep == response'.op = "update_attendance"

AttendanceOk(status) ==
    /\ AttendanceStep
    /\ response'.code = 200
    /\ response'.status = status

\* every session but the target is as it was
OtherSessionsUnchanged(sid) ==
    /\ Len(session') = Len(session)
    /\ \A i \in 1..Len(session) : i # sid => session'[i] = session[i]

\* C1: a successful update_attendance with status "completed" leaves the
\* Session completed and its owning Client's sessions_remaining exactly 1
\* lower than before the call.
C1_CompletedDecrementsOwner ==
    [][AttendanceOk("completed") =>
        LET sid == response'.id
            cid == session[sid].client_id
        IN  /\ session'[sid].status = "completed"
            /\ cid \in 1..Len(client) =>
                 /\ "sessions_remaining" \in DOMAIN client'[cid]
                 /\ client'[cid].sessions_remaining = Remaining(client[cid]) - 1
                 /\ \A c \in 1..Len(client) : c # cid => client'[c] = client[c]]_vars

C1_Witness ==
    /\ response.op = "update_attendance"
    /\ response.code = 200
    /\ response.status = "completed"
    /\ Len(client) = MaxClients
    /\ LET cid == session[response.id].client_id
       IN  /\ cid \in 1..Len(client)
           /\ session[response.id].status = "completed"
           /\ "updated_at" \in DOMAIN client[cid]
           /\ "sessions_remaining" \in DOMAIN client[cid]
           /\ client[cid].sessions_remaining = MaxRemaining - 1
           /\ \A c \in 1..Len(client) : c # cid => "updated_at" \notin DOMAIN client[c]

\* C2: update_attendance with a session id that matches no stored Session
\* answers 404 and leaves every Session and Client unchanged.
C2_NotFoundIs404 ==
    [][(AttendanceStep /\ response'.error = "not_found") =>
        /\ response'.code = 404
        /\ UNCHANGED <<client, session>>]_vars

\* C3: every Client's sessions_remaining, when set, is at least 0.
C3_RemainingNonNegative ==
    \A c \in 1..Len(client) :
        "sessions_remaining" \in DOMAIN client[c] => client[c].sessions_remaining >= 0

\* C4: marking an already completed Session completed again succeeds and
\* decrements the owning Client's sessions_remaining by 1 once more.
C4_CompletedAgainDecrementsAgain ==
    [][\A sid \in 1..Len(session) :
        (/\ session[sid].status = "completed"
         /\ db
         /\ session[sid].client_id \in 1..Len(client)
         /\ AttendanceStep
         /\ response'.id = sid
         /\ response'.status = "completed"
         /\ response'.error = "")
        => /\ response'.code = 200
           /\ session'[sid].status = "completed"
           /\ Remaining(client'[session[sid].client_id])
                = Remaining(client[session[sid].client_id]) - 1]_vars

\* one Session only, marked completed, and a counter that has been
\* decremented at least twice: the second call found the Session completed
C4_Witness ==
    /\ response.op = "update_attendance"
    /\ response.code = 200
    /\ response.status = "completed"
    /\ Len(session) = 1
    /\ session[1].status = "completed"
    /\ session[1].client_id \in 1..Len(client)
    /\ "sessions_remaining" \in DOMAIN client[session[1].client_id]
    /\ client[session[1].client_id].sessions_remaining = -2

\* C5: a successful update_attendance with status "missed" or "cancelled"
\* changes only the target Session's status and updated_at.
C5_MissedCancelledFrame ==
    [][(AttendanceOk("missed") \/ AttendanceOk("cancelled")) =>
        LET sid == response'.id
        IN  /\ client' = client
            /\ measurement' = measurement
            /\ OtherSessionsUnchanged(sid)
            /\ session'[sid].status = response'.status
            /\ DOMAIN session'[sid] = DOMAIN session[sid] \cup {"updated_at"}
            /\ \A f \in DOMAIN session[sid] \ {"status", "updated_at"} :
                 session'[sid][f] = session[sid][f]]_vars

C5_Witness ==
    /\ response.op = "update_attendance"
    /\ response.code = 200
    /\ response.status = "cancelled"
    /\ Len(session) = 2
    /\ session[response.id].status = "cancelled"
    /\ session[response.id].client_id \in 1..Len(client)
    /\ "sessions_remaining" \in DOMAIN client[session[response.id].client_id]
    /\ client[session[response.id].client_id].sessions_remaining = MaxRemaining
    /\ \A i \in 1..Len(session) :
         i # response.id =>
            /\ session[i].status = "completed"
            /\ session[i].client_id = session[response.id].client_id
            /\ "updated_at" \notin DOMAIN session[i]

\* C6: every stored Session's status is one of the four enumerated values,
\* and a completed, missed or cancelled Session never returns to scheduled.
C6_StatusEnumeratedAndTerminal ==
    [][\A i \in 1..Len(session') :
        /\ session'[i].status \in SessionStatus
        /\ (i <= Len(session) /\ session[i].status \in SessionStatus \ {"scheduled"})
             => session'[i].status # "scheduled"]_vars

\* C7: when the Session write succeeds and the Client write then fails, the
\* Session stays completed, the Client is not decremented, nothing is
\* compensated, and the request ends with an error response.
C7_ClientWriteFailure ==
    [][(AttendanceStep /\ response'.error \in {"store_client", "invalid_client_id"}) =>
        LET sid == response'.id
        IN  /\ session'[sid].status = "completed"
            /\ "updated_at" \in DOMAIN session'[sid]
            /\ OtherSessionsUnchanged(sid)
            /\ client' = client
            /\ response'.code >= 400]_vars

C7_Witness ==
    /\ response.op = "update_attendance"
    /\ response.error = "store_client"
    /\ response.code >= 400
    /\ session[response.id].status = "completed"
    /\ session[response.id].client_id \in 1..Len(client)
    /\ "sessions_remaining" \in DOMAIN client[session[response.id].client_id]
    /\ client[session[response.id].client_id].sessions_remaining = MaxRemaining
    /\ "updated_at" \notin DOMAIN client[session[response.id].client_id]

\* C8: whenever the store is unavailable to update_attendance (no handle,
\* or a store call unreachable), the answer is a 5xx error and no Session
\* or Client is modified.
C8_StoreUnavailableIs5xx ==
    [][(AttendanceStep /\ response'.error \in {"db_none", "store", "store_client"}) =>
        /\ response'.code >= 500
        /\ UNCHANGED <<client, session>>]_vars

\* a Measurement of the client with one_rm_kg and bodyweight_kg present and > 0
Qualifies(m, client_id) ==
    /\ m.client_id = client_id
    /\ "one_rm_kg" \in DOMAIN m /\ m.one_rm_kg > 0
    /\ "bodyweight_kg" \in DOMAIN m /\ m.bodyweight_kg > 0

\* C9: progress_relative_strength returns exactly the Measurements of the
\* client whose one_rm_kg and bodyweight_kg are both present and > 0: each
\* of them once, and nothing else.
C9_ProgressExactlyQualifying ==
    (response.op = "progress_relative_strength" /\ response.code = 200) =>
        LET body == response.body
            want == {i \in 1..Len(measurement) : Qualifies(measurement[i], response.id)}
        IN  /\ Len(body) = Cardinality(want)
            /\ \A k \in 1..Len(body) : \E i \in want : body[k] = measurement[i]
            /\ \A i \in want : \E k \in 1..Len(body) : body[k] = measurement[i]

C9_Witness ==
    /\ response.op = "progress_relative_strength"
    /\ response.code = 200
    /\ Len(measurement) = 2
    /\ Len(response.body) = 1
    /\ \A i \in 1..2 : measurement[i].client_id = response.id
    /\ \E i \in 1..2 :
         /\ "one_rm_kg" \in DOMAIN measurement[i] /\ measurement[i].one_rm_kg > 0
         /\ "bodyweight_kg" \in DOMAIN measurement[i] /\ measurement[i].bodyweight_kg = 0

\* every in-flight request asked for "completed" and has answered 200
AllCompletedOk ==
    \A p \in Procs : pc[p] = "ok" /\ req[p].status = "completed"

\* C10: concurrent update_attendance calls with status "completed" for
\* Sessions of one Client lose no decrement: once all have succeeded, the
\* Client's sessions_remaining is its initial value minus the number of calls.
C10_NoLostDecrement ==
    AllCompletedOk =>
        \A c \in 1..Len(client) :
            Remaining(client[c]) =
                Remaining(client0[c]) - Cardinality({p \in Procs : sess[p].client_id = c})

C10_Witness ==
    /\ AllCompletedOk
    /\ \A p, q \in Procs : p # q => req[p].session_id # req[q].session_id
    /\ \E c \in 1..Len(client) :
         /\ \A p \in Procs : sess[p].client_id = c
         /\ "sessions_remaining" \in DOMAIN client0[c]
         /\ client[c].sessions_remaining = client0[c].sessions_remaining - NumProcs

====
